---- MODULE Spec2Model ----
(***************************************************************************)
(* Model of the voxel ray-tracer application: the application loop         *)
(* (src/src/app.rs), the window event pump (src/src/window.rs), the GPU    *)
(* context (src/src/render.rs) and the compute pipeline with its readback  *)
(* path (src/src/tracer.rs).                                               *)
(*                                                                         *)
(* Every u32 of the program is kept at its width.  A u32 (and every        *)
(* intermediate value of u32 arithmetic before it is wrapped) is a pair    *)
(* <<hi, lo>> of base-2^16 limbs standing for hi * 2^16 + lo, with lo in   *)
(* 0..2^16-1; a value fits a u32 iff hi < 2^16.                            *)
(***************************************************************************)
EXTENDS Integers, Sequences, FiniteSets, TLC

\* ------------------------------------------------------------------ bounds
\* Number of iterations of the main loop that are explored.
MaxTicks == 3
\* Number of SDL events delivered to one call of Window::handle_events.
MaxEvents == 2

\* ------------------------------------------------------- program constants
WORKGROUP_SIZE == 16
COPY_BYTES_PER_ROW_ALIGNMENT == 256
DefaultResolution == 1080
DefaultMaxSteps == 50
WindowWidth == 1280
WindowHeight == 720

\* ------------------------------------------------------- u32 arithmetic
Limb == 2^16

\* The u32 with the value n, for 0 <= n < 2^31.
U32(n) == <<n \div Limb, n % Limb>>

WNorm(h, l) == <<h + (l \div Limb), l % Limb>>

\* Exact (unwrapped) sum and product with a small natural number.
WAdd(x, k) == WNorm(x[1], x[2] + k)
WMul(x, m) == WNorm(x[1] * m, x[2] * m)

\* Quotient and remainder by a small positive number.
WDiv(x, d) == <<x[1] \div d, ((x[1] % d) * Limb + x[2]) \div d>>
WMod(x, d) == ((x[1] % d) * Limb + x[2]) % d

WLess(a, b) == a[1] < b[1] \/ (a[1] = b[1] /\ a[2] < b[2])
WLeq(a, b) == a = b \/ WLess(a, b)

\* Exact product of two u32 as a u64 (the high limb is not wrapped).
U64Mul(x, y) ==
    LET lo == WMul(x, y[2])
        hi == WMul(x, y[1])
    IN  <<lo[1] + hi[1] * Limb + hi[2], lo[2]>>

Fits32(x) == x[1] < Limb
Wrap32(x) == <<x[1] % Limb, x[2]>>
U32Max == <<Limb - 1, Limb - 1>>

\* `i as u32` for an i32 i: the two's complement reinterpretation.
AsU32(i) ==
    IF i >= 0 THEN U32(i)
    ELSE <<Limb - 1 - ((-i - 1) \div Limb), Limb - 1 - ((-i - 1) % Limb)>>

\* An arithmetic step of the program whose exact result is r.  A build with
\* overflow checks (the debug profile) panics when r does not fit; a build
\* without them (the release profile) wraps.
Checked(r, checks) == [panic |-> checks /\ ~Fits32(r), val |-> Wrap32(r)]

\* ------------------------------------------------------------------ state
VARIABLES
    pc,              \* position of the process: in main, App::new, App::run, App::execute
    fault,           \* what ended the process abnormally ("none" while it has not)
    overflow_checks, \* build profile: TRUE when integer overflow panics
    should_close,    \* Window.should_close
    surface_config,  \* RenderContext.surface_config, <<width, height>>
    tracer,          \* the Tracer: [built, resolution, texture]
    queue,           \* everything submitted to RenderContext.queue, in submission order
    frame,           \* App.frame: the texture handle shown in the central panel
    frame_time,      \* App.frame_time, as the trace call whose duration it holds
    grid,            \* App.grid
    uniforms,        \* App.uniforms
    camera,          \* App.camera
    realtime,        \* App.realtime
    should_run,      \* App.should_run
    png,             \* the image file written by the last successful save
    padded,          \* padded_bytes_per_row of the frame_to_image call in progress or last made
    mapped,          \* the map_async request of frame_to_image: "none", "pending", "ok" or "err"
    ticks,           \* history: number of App::execute calls started
    nTrace,          \* history: number of Tracer::trace calls made
    lastTrace,       \* history: the arguments of the most recent Tracer::trace call
    cur,             \* history: what the tick in progress has done so far
    streak,          \* history: the latest run of completed ticks of one kind
    evCount,         \* number of events polled so far by the handle_events call in progress
    lastEvent        \* the event handled by the most recent iteration of handle_events

vars == <<pc, fault, overflow_checks, should_close, surface_config,
          tracer, queue, frame, frame_time, grid, uniforms, camera, realtime, should_run,
          png, padded, mapped, ticks, nTrace, lastTrace, cur, streak, evCount, lastEvent>>

windowVars == <<should_close, surface_config, evCount, lastEvent>>
paramVars == <<grid, uniforms, camera>>
saveVars == <<png, padded, mapped>>
histVars == <<ticks, streak>>

\* ------------------------------------------------------------ input domains
\* Values the UI can drag MaxSteps and the camera zoom to.
MaxStepsValues == {DefaultMaxSteps, 51}
ZoomValues == {1, 2}
\* Sizes (i32) a window size event can carry.
EventSizes == {<<800, 600>>, <<0, 600>>, <<800, 0>>, <<0, 0>>, <<-1, 600>>}
Events ==
    {[type |-> "Quit", w |-> 0, h |-> 0], [type |-> "Other", w |-> 0, h |-> 0]}
    \cup {[type |-> "Resized", w |-> s[1], h |-> s[2]] : s \in EventSizes}
\* What one iteration of handle_events did: the event, and whether the
\* surface was configured again.
Handled(e, configured) ==
    [type |-> e.type, w |-> e.w, h |-> e.h, configured |-> configured]
NoEvent == [type |-> "None", w |-> 0, h |-> 0, configured |-> FALSE]

\* ----------------------------------------------------------------- App::new
\* The five voxels of the start scene: <<position, colour>>.
DefaultGrid ==
    << <<<<0, 0, 0>>, <<1, 1, 1>>>>,
       <<<<1, 1, 0>>, <<0, 1, 0>>>>,
       <<<<1, 2, 0>>, <<1, 1, 0>>>>,
       <<<<-1, 1, 0>>, <<0, 0, 1>>>>,
       <<<<0, 1, -1>>, <<1, 0, 0>>>> >>

\* The uniforms with a voxel count that does not follow the grid.
DefaultUniformsStale(g) ==
    [frames |-> U32(0),
     max_steps |-> DefaultMaxSteps,
     voxel_amount |-> U32(0),
     resolution |-> <<U32(DefaultResolution), U32(DefaultResolution)>>]

\* The uniforms App::new builds for the grid g.
DefaultUniforms(g) ==
    [frames |-> U32(0),
     max_steps |-> DefaultMaxSteps,
     voxel_amount |-> U32(Len(g)),
     resolution |-> <<U32(DefaultResolution), U32(DefaultResolution)>>]

DefaultCamera == [zoom |-> 1]

NoTracer == [built |-> FALSE, resolution |-> <<U32(0), U32(0)>>, texture |-> 0]
NoTrace == [voxel_amount |-> U32(0), voxels |-> 0, resolution |-> <<U32(0), U32(0)>>, ok |-> FALSE]
NoPng == [written |-> FALSE, width |-> U32(0), height |-> U32(0), bytes |-> U32(0)]
\* What the tick in progress has done: realtime as it began, the Render
\* button pressed, the trace calls made, a readback submitted, the drag values
\* of the side panel run.
NoTick == [realtime |-> FALSE, render |-> FALSE, calls |-> 0, saved |-> FALSE, widgets |-> FALSE]

\* The kind of a tick: "realtime" when realtime was on as it began, else
\* "manual" when the Render button was pressed in it, else "idle".
TickKind(t) == IF t.realtime THEN "realtime" ELSE IF t.render THEN "manual" ELSE "idle"

\* The run of consecutive completed ticks of one kind that ends with the
\* latest completed tick: its kind, its length and the trace calls made in it.
NoStreak == [kind |-> "none", ticks |-> 0, calls |-> 0]
Extend(st, t) ==
    IF st.kind = TickKind(t)
    THEN [st EXCEPT !.ticks = @ + 1, !.calls = @ + t.calls]
    ELSE [kind |-> TickKind(t), ticks |-> 1, calls |-> t.calls]

\* ---------------------------------------------------------------- Tracer
\* The texture created with the size of the window.
TracerNewWindowSized(u) ==
    [built |-> TRUE, resolution |-> <<U32(WindowWidth), U32(WindowHeight)>>, texture |-> 1]

\* Tracer::new: the texture (the first and only one the Tracer creates) is
\* created with the resolution of the uniforms, and the resolution is stored.
TracerNew(u) == [built |-> TRUE, resolution |-> u.resolution, texture |-> 1]

\* The workgroup counts of Tracer::trace's dispatch_workgroups call.
WorkgroupCount(tr) ==
    <<WDiv(tr.resolution[1], WORKGROUP_SIZE), WDiv(tr.resolution[2], WORKGROUP_SIZE)>>

\* The command Tracer::trace submits; id is the texture handle it returns.
DispatchCmd(tr, u, g, cam, id, tick) ==
    [kind |-> "dispatch", id |-> id, tick |-> tick,
     groups |-> WorkgroupCount(tr), resolution |-> tr.resolution,
     voxel_amount |-> u.voxel_amount, voxels |-> Len(g)]

TraceArgs(tr, u, g, ok) ==
    [voxel_amount |-> u.voxel_amount, voxels |-> Len(g), resolution |-> tr.resolution, ok |-> ok]

\* The row pitch rounded down instead of up.
PaddedRoundedDown(w, checks) ==
    LET align == COPY_BYTES_PER_ROW_ALIGNMENT
        m == Checked(WMul(w, 4), checks)
    IN  [panic |-> m.panic,
         val |-> Wrap32(WMul(WDiv(m.val, align), align))]

\* padded_bytes_per_row of Tracer::frame_to_image for the width w.
PaddedBytesPerRow(w, checks) ==
    LET align == COPY_BYTES_PER_ROW_ALIGNMENT
        m == Checked(WMul(w, 4), checks)
        a == Checked(WAdd(m.val, align - 1), checks)
    IN  [panic |-> m.panic \/ a.panic,
         val |-> Wrap32(WMul(WDiv(a.val, align), align))]

\* The copy frame_to_image submits; latest is the number of trace calls made
\* before it.
CopyCmd(tr, p, latest, tick) ==
    [kind |-> "copy", latest |-> latest, tick |-> tick,
     bytes_per_row |-> p, rows |-> tr.resolution[2]]

PresentCmd(tick) == [kind |-> "present", tick |-> tick]

\* The result of the mapping taken without waiting for it.
MapNotAwaited(m) == TRUE

\* `receiver.receive().await`: frame_to_image goes on once the callback of
\* map_async has sent the result of the mapping.
MapReady(m) == m \in {"ok", "err"}

\* The image given the width of the texture, not of the padded row.
PngOfTrimmedWidth(tr, p) ==
    [written |-> TRUE, width |-> tr.resolution[1], height |-> tr.resolution[2],
     bytes |-> U64Mul(p, tr.resolution[2])]

\* The image image::save_buffer writes: its dimensions, and the length of the
\* data it is given, the whole of the mapped buffer, whose size is
\* `padded_bytes_per_row as u64 * self.resolution.1 as u64`.
PngOf(tr, p) ==
    [written |-> TRUE, width |-> WDiv(p, 4), height |-> tr.resolution[2],
     bytes |-> U64Mul(p, tr.resolution[2])]

\* ---------------------------------------------------------- RenderContext
\* The guard with `||` in place of `&&`.
ResizeEither(cfg, width, height) ==
    IF WLess(U32(0), width) \/ WLess(U32(0), height) THEN <<width, height>> ELSE cfg

\* RenderContext::resize: the new surface configuration.
Resize(cfg, width, height) ==
    IF WLess(U32(0), width) /\ WLess(U32(0), height) THEN <<width, height>> ELSE cfg

\* RenderContext::resize: whether Surface::configure is called.
ResizeConfigures(width, height) == WLess(U32(0), width) /\ WLess(U32(0), height)

\* ------------------------------------------------------------------- App
\* The order with the Save button ahead of the Render button.
SaveFirst(p) ==
    CASE p = "execute" -> "ui_save"
      [] p = "ui_save" -> "ui_render"
      [] p = "ui_render" -> "ui_realtime"
      [] p = "ui_realtime" -> "ui_edit"
      [] p = "ui_edit" -> "render"
      [] p = "render" -> "events"
      [] p = "events" -> "update"
      [] p = "update" -> "run"

\* The order with the Realtime checkbox ahead of the Render button.
CheckboxFirst(p) ==
    CASE p = "execute" -> "ui_realtime"
      [] p = "ui_realtime" -> "ui_render"
      [] p = "ui_render" -> "ui_save"
      [] p = "ui_save" -> "ui_edit"
      [] p = "ui_edit" -> "render"
      [] p = "render" -> "events"
      [] p = "events" -> "update"
      [] p = "update" -> "run"

\* The order with the drag values ahead of the buttons.
EditFirst(p) ==
    CASE p = "execute" -> "ui_edit"
      [] p = "ui_edit" -> "ui_render"
      [] p = "ui_render" -> "ui_realtime"
      [] p = "ui_realtime" -> "ui_save"
      [] p = "ui_save" -> "render"
      [] p = "render" -> "events"
      [] p = "events" -> "update"
      [] p = "update" -> "run"

\* The order of the statements of App::execute and, within it, of the
\* widgets of the side panel of App::draw_ui: the position that follows p
\* when p ends without an error.
After(p) ==
    CASE p = "execute" -> "ui_render"
      [] p = "ui_render" -> "ui_realtime"
      [] p = "ui_realtime" -> "ui_save"
      [] p = "ui_save" -> "ui_edit"
      [] p = "ui_edit" -> "render"
      [] p = "render" -> "events"
      [] p = "events" -> "update"
      [] p = "update" -> "run"

\* The positions inside App::draw_ui.
UiPhase == {"ui_render", "ui_realtime", "ui_save", "save_wait", "ui_edit"}

\* The Render button offered whatever the mode.
RenderAlwaysOffered(rt) == TRUE

\* `if !self.realtime`: whether the side panel offers the Render button.
RenderOffered(rt) == ~rt

\* The flag assigned from every event instead of set by Quit.
CloseFlagOfLastEvent(flag, e) == e.type = "Quit"

\* `Event::Quit { .. } => self.should_close = true`: Window.should_close
\* after the event e.
CloseFlag(flag, e) == IF e.type = "Quit" THEN TRUE ELSE flag

\* The handle replaced whatever trace returned.
FrameAlwaysReplaced(old, ok, new) == new

\* `self.frame = self.tracer.trace(..)?` (`.unwrap()` for the Render button)
\* and the assignment of frame_time after it: the field is assigned when trace
\* returned Ok, and left as it is when the error is returned or unwrapped.
FrameAfter(old, ok, new) == IF ok THEN new ELSE old

\* The counter left as it is.
FramesNotCounted(f) == f

\* `self.uniforms.frames += 1`: the exact sum, before it is checked or wrapped.
FramesInc(f) == WAdd(f, 1)

Init ==
    /\ pc = "new"
    /\ fault = "none"
    /\ overflow_checks \in BOOLEAN
    /\ should_close = FALSE
    /\ surface_config = <<U32(0), U32(0)>>
    /\ tracer = NoTracer
    /\ queue = <<>>
    /\ frame = 0
    /\ frame_time = 0
    /\ grid = <<>>
    /\ uniforms = DefaultUniforms(<<>>)
    /\ camera = DefaultCamera
    /\ realtime = FALSE
    /\ should_run = FALSE
    /\ png = NoPng
    /\ padded = U32(0)
    /\ mapped = "none"
    /\ ticks = 0
    /\ nTrace = 0
    /\ lastTrace = NoTrace
    /\ cur = NoTick
    /\ streak = NoStreak
    /\ evCount = 0
    /\ lastEvent = NoEvent

\* App::new, called from main.  initOk: the window, the render context, the
\* egui platform and the shader file are there; traceOk: the first trace
\* succeeds (it is unwrapped).
AppNew ==
    /\ pc = "new"
    /\ \E initOk \in BOOLEAN, traceOk \in BOOLEAN :
        IF ~initOk THEN
            /\ pc' = "exit_err"
            /\ fault' = "init"
            /\ UNCHANGED <<overflow_checks, windowVars, tracer, queue, frame, frame_time, paramVars,
                           realtime, should_run, saveVars, histVars, nTrace, lastTrace, cur>>
        ELSE
            LET g == DefaultGrid
                u == DefaultUniforms(g)
                tr == TracerNew(u)
            IN  /\ surface_config' = <<U32(WindowWidth), U32(WindowHeight)>>
                /\ grid' = g
                /\ uniforms' = u
                /\ camera' = DefaultCamera
                /\ tracer' = tr
                /\ nTrace' = nTrace + 1
                /\ lastTrace' = TraceArgs(tr, u, g, traceOk)
                /\ IF traceOk THEN
                       /\ queue' = Append(queue, DispatchCmd(tr, u, g, DefaultCamera, nTrace + 1, 0))
                       /\ frame' = nTrace + 1
                       /\ frame_time' = nTrace + 1
                       /\ realtime' = FALSE
                       /\ should_run' = TRUE
                       /\ pc' = "run"
                       /\ fault' = "none"
                   ELSE
                       /\ pc' = "panic"
                       /\ fault' = "init"
                       /\ UNCHANGED <<queue, frame, frame_time, realtime, should_run>>
                /\ UNCHANGED <<overflow_checks, should_close, evCount, lastEvent,
                               saveVars, histVars, cur>>

\* App::run: the loop condition.
RunLoop ==
    /\ pc = "run"
    /\ IF should_run THEN
           /\ ticks < MaxTicks
           /\ pc' = "execute"
           /\ ticks' = ticks + 1
           /\ cur' = [NoTick EXCEPT !.realtime = realtime]
       ELSE
           /\ pc' = "exit_ok"
           /\ UNCHANGED <<ticks, cur>>
    /\ UNCHANGED <<fault, overflow_checks, windowVars, tracer, queue, frame, frame_time, paramVars,
                   realtime, should_run, saveVars, streak, nTrace, lastTrace>>

\* App::execute, lines 112-122: the dispatch of realtime mode; its error is
\* returned with `?`.
ExecuteTrace ==
    /\ pc = "execute"
    /\ IF realtime THEN
           \E ok \in BOOLEAN :
               /\ nTrace' = nTrace + 1
               /\ lastTrace' = TraceArgs(tracer, uniforms, grid, ok)
               /\ cur' = [cur EXCEPT !.calls = @ + 1]
               /\ frame' = FrameAfter(frame, ok, nTrace + 1)
               /\ frame_time' = FrameAfter(frame_time, ok, nTrace + 1)
               /\ IF ok THEN
                      /\ queue' = Append(queue, DispatchCmd(tracer, uniforms, grid, camera, nTrace + 1, ticks))
                      /\ pc' = After(pc)
                      /\ fault' = fault
                  ELSE
                      /\ pc' = "exit_err"
                      /\ fault' = "trace"
                      /\ queue' = queue
       ELSE
           /\ pc' = After(pc)
           /\ UNCHANGED <<fault, queue, frame, frame_time, nTrace, lastTrace, cur>>
    /\ UNCHANGED <<overflow_checks, windowVars, tracer, paramVars, realtime, should_run,
                   saveVars, histVars>>

\* App::draw_ui, lines 160-174: the Render button, offered when realtime is
\* off; the result of its trace is unwrapped.
UiRender ==
    /\ pc = "ui_render"
    /\ \E clicked \in BOOLEAN, ok \in BOOLEAN :
        IF RenderOffered(realtime) /\ clicked THEN
            /\ nTrace' = nTrace + 1
            /\ lastTrace' = TraceArgs(tracer, uniforms, grid, ok)
            /\ cur' = [cur EXCEPT !.calls = @ + 1, !.render = TRUE]
            /\ frame' = FrameAfter(frame, ok, nTrace + 1)
            /\ frame_time' = FrameAfter(frame_time, ok, nTrace + 1)
            /\ IF ok THEN
                   /\ queue' = Append(queue, DispatchCmd(tracer, uniforms, grid, camera, nTrace + 1, ticks))
                   /\ pc' = After(pc)
                   /\ fault' = fault
               ELSE
                   /\ pc' = "panic"
                   /\ fault' = "trace"
                   /\ queue' = queue
        ELSE
            /\ ok
            /\ pc' = After(pc)
            /\ UNCHANGED <<fault, queue, frame, frame_time, nTrace, lastTrace, cur>>
    /\ UNCHANGED <<overflow_checks, windowVars, tracer, paramVars, realtime, should_run,
                   saveVars, histVars>>

\* App::draw_ui, line 175: the Realtime checkbox.
UiRealtime ==
    /\ pc = "ui_realtime"
    /\ \E toggled \in BOOLEAN : realtime' = IF toggled THEN ~realtime ELSE realtime
    /\ pc' = After(pc)
    /\ UNCHANGED <<fault, overflow_checks, windowVars, tracer, queue, frame, frame_time, paramVars,
                   should_run, saveVars, histVars, nTrace, lastTrace, cur>>

\* App::draw_ui, lines 177-185 with Tracer::frame_to_image, lines 273-316:
\* the Save button and the file dialog; with a path chosen the readback copy
\* is submitted and the mapping of the buffer is requested.
UiSave ==
    /\ pc = "ui_save"
    /\ \E clicked \in BOOLEAN, chosen \in BOOLEAN :
        IF clicked /\ chosen THEN
            LET p == PaddedBytesPerRow(tracer.resolution[1], overflow_checks)
            IN  IF p.panic THEN
                    /\ pc' = "panic"
                    /\ fault' = "overflow"
                    /\ UNCHANGED <<queue, padded, mapped, cur>>
                ELSE
                    /\ padded' = p.val
                    /\ queue' = Append(queue, CopyCmd(tracer, p.val, nTrace, ticks))
                    /\ mapped' = "pending"
                    /\ cur' = [cur EXCEPT !.saved = TRUE]
                    /\ pc' = "save_wait"
                    /\ fault' = fault
        ELSE
            /\ chosen
            /\ pc' = After(pc)
            /\ UNCHANGED <<fault, queue, padded, mapped, cur>>
    /\ UNCHANGED <<overflow_checks, windowVars, tracer, frame, frame_time, paramVars, realtime,
                   should_run, png, histVars, nTrace, lastTrace>>

\* Tracer::frame_to_image, lines 312-316: the device runs the callback of
\* map_async with the result of the mapping, when it does.
MapCallback ==
    /\ pc \in {"save_wait", "lib_wait"}
    /\ mapped = "pending"
    /\ \E ok \in BOOLEAN : mapped' = IF ok THEN "ok" ELSE "err"
    /\ UNCHANGED <<pc, fault, overflow_checks, windowVars, tracer, queue, frame, frame_time, paramVars,
                   realtime, should_run, png, padded, histVars, nTrace, lastTrace, cur>>

\* Tracer::frame_to_image, lines 318-336: the result of the mapping has been
\* received and, when it is Ok, image::save_buffer has ended with writeOk;
\* draw_ui unwraps the result.
SaveComplete ==
    /\ pc = "save_wait"
    /\ MapReady(mapped)
    /\ \E writeOk \in BOOLEAN :
        IF mapped = "ok" /\ writeOk THEN
            /\ png' = PngOf(tracer, padded)
            /\ pc' = After("ui_save")
            /\ fault' = fault
        ELSE
            /\ mapped = "ok" \/ writeOk
            /\ pc' = "panic"
            /\ fault' = "save"
            /\ png' = png
    /\ mapped' = "none"
    /\ UNCHANGED <<overflow_checks, windowVars, tracer, queue, frame, frame_time, paramVars, realtime,
                   should_run, padded, histVars, nTrace, lastTrace, cur>>

\* App::draw_ui, lines 186-273: the drag values of the camera and the
\* uniforms (the pointer drags at most one of them in a frame), then the
\* central panel.
UiEdit ==
    /\ pc = "ui_edit"
    /\ \/ UNCHANGED <<uniforms, camera>>
       \/ \E ms \in MaxStepsValues :
            /\ uniforms' = [uniforms EXCEPT !.max_steps = ms]
            /\ camera' = camera
       \/ \E z \in ZoomValues :
            /\ camera' = [camera EXCEPT !.zoom = z]
            /\ uniforms' = uniforms
    /\ cur' = [cur EXCEPT !.widgets = TRUE]
    /\ pc' = After(pc)
    /\ UNCHANGED <<fault, overflow_checks, windowVars, tracer, queue, frame, frame_time, grid, realtime,
                   should_run, saveVars, histVars, nTrace, lastTrace>>

\* App::execute, lines 127-134 with RenderContext::render: the frame is
\* presented, unless the surface texture cannot be acquired.
Render ==
    /\ pc = "render"
    /\ \E ok \in BOOLEAN :
        IF ok THEN
            /\ queue' = Append(queue, PresentCmd(ticks))
            /\ pc' = After(pc)
            /\ fault' = fault
        ELSE
            /\ pc' = "exit_err"
            /\ fault' = "surface"
            /\ queue' = queue
    /\ UNCHANGED <<overflow_checks, windowVars,
                   tracer, frame, frame_time, paramVars, realtime, should_run, saveVars, histVars,
                   nTrace, lastTrace, cur>>

\* Window::handle_events: one iteration of the loop over the polled events.
HandleEvent ==
    /\ pc = "events"
    /\ evCount < MaxEvents
    /\ \E e \in Events :
        /\ lastEvent' = Handled(e, e.type = "Resized" /\ ResizeConfigures(AsU32(e.w), AsU32(e.h)))
        /\ should_close' = CloseFlag(should_close, e)
        /\ surface_config' = IF e.type = "Resized"
                             THEN Resize(surface_config, AsU32(e.w), AsU32(e.h))
                             ELSE surface_config
    /\ evCount' = evCount + 1
    /\ UNCHANGED <<pc, fault, overflow_checks, tracer, queue, frame, frame_time, paramVars, realtime,
                   should_run, saveVars, histVars, nTrace, lastTrace, cur>>

\* Window::handle_events: the event pump has no more events.
EventsDone ==
    /\ pc = "events"
    /\ pc' = After(pc)
    /\ lastEvent' = NoEvent
    /\ evCount' = 0
    /\ UNCHANGED <<fault, overflow_checks, should_close, surface_config, tracer, queue, frame, frame_time, paramVars,
                   realtime, should_run, saveVars, histVars, nTrace, lastTrace, cur>>

\* App::execute, lines 139-147.
Update ==
    /\ pc = "update"
    /\ should_run' = ~should_close
    /\ LET f == Checked(FramesInc(uniforms.frames), overflow_checks)
       IN  IF f.panic THEN
               /\ pc' = "panic"
               /\ fault' = "overflow"
               /\ UNCHANGED <<uniforms, streak, cur>>
           ELSE
               /\ uniforms' = [uniforms EXCEPT !.frames = f.val]
               /\ streak' = Extend(streak, cur)
               /\ cur' = NoTick
               /\ pc' = After(pc)
               /\ fault' = fault
    /\ UNCHANGED <<overflow_checks, windowVars, tracer, queue, frame, frame_time, grid, camera, realtime,
                   saveVars, ticks, nTrace, lastTrace>>

Tick ==
    \/ RunLoop
    \/ ExecuteTrace
    \/ UiRender
    \/ UiRealtime
    \/ UiSave
    \/ MapCallback
    \/ SaveComplete
    \/ UiEdit
    \/ Render
    \/ HandleEvent
    \/ EventsDone
    \/ Update

Next ==
    \/ AppNew
    \/ Tick

Spec == Init /\ [][Next]_vars

\* ------------------------------------------------- the long-running loop
\* The state App::new leaves, with the frame counter at f: the application
\* after f ticks in which nothing was pressed, edited or received (each tick
\* adds one to uniforms.frames and changes nothing else the model keeps; the
\* presents of those ticks are left out of the submission history).
Started(f) ==
    /\ pc = "run"
    /\ fault = "none"
    /\ should_close = FALSE
    /\ surface_config = <<U32(WindowWidth), U32(WindowHeight)>>
    /\ tracer = TracerNew(DefaultUniforms(DefaultGrid))
    /\ queue = <<DispatchCmd(tracer, DefaultUniforms(DefaultGrid), DefaultGrid, DefaultCamera, 1, 0)>>
    /\ frame = 1
    /\ frame_time = 1
    /\ grid = DefaultGrid
    /\ uniforms = [DefaultUniforms(DefaultGrid) EXCEPT !.frames = f]
    /\ camera = DefaultCamera
    /\ realtime = FALSE
    /\ should_run = TRUE
    /\ png = NoPng
    /\ padded = U32(0)
    /\ mapped = "none"
    /\ ticks = 0
    /\ nTrace = 1
    /\ lastTrace = TraceArgs(tracer, DefaultUniforms(DefaultGrid), DefaultGrid, TRUE)
    /\ cur = NoTick
    /\ streak = NoStreak
    /\ evCount = 0
    /\ lastEvent = NoEvent

\* The frame count at which the exploration of the long-running loop
\* begins: the tick number MaxTicks from there is the one that finds the u32
\* counter at its largest value.
StartFrames == <<Limb - 1, Limb - MaxTicks>>

InitLong ==
    /\ overflow_checks \in BOOLEAN
    /\ Started(StartFrames)

SpecLong == InitLong /\ [][Tick]_vars

\* ------------------------------------------------ the Tracer used directly
\* Widths and heights a caller of Tracer::new can put in uniforms.resolution.
Widths ==
    {U32(1), U32(16), U32(63), U32(64), U32(100), U32(DefaultResolution),
     <<2^14 - 1, Limb - 64>>, <<2^14 - 1, Limb - 63>>, <<2^14 - 1, Limb - 1>>,
     <<2^14, 0>>, <<2^14, 16>>, U32Max}
Heights == {U32(16), U32(100), U32(DefaultResolution)}

InitLib ==
    /\ pc = "lib_new"
    /\ fault = "none"
    /\ overflow_checks \in BOOLEAN
    /\ should_close = FALSE
    /\ surface_config = <<U32(WindowWidth), U32(WindowHeight)>>
    /\ tracer = NoTracer
    /\ queue = <<>>
    /\ frame = 0
    /\ frame_time = 0
    /\ grid = DefaultGrid
    /\ \E w \in Widths, h \in Heights :
        uniforms = [DefaultUniforms(DefaultGrid) EXCEPT !.resolution = <<w, h>>]
    /\ camera = DefaultCamera
    /\ realtime = FALSE
    /\ should_run = FALSE
    /\ png = NoPng
    /\ padded = U32(0)
    /\ mapped = "none"
    /\ ticks = 0
    /\ nTrace = 0
    /\ lastTrace = NoTrace
    /\ cur = NoTick
    /\ streak = NoStreak
    /\ evCount = 0
    /\ lastEvent = NoEvent

libFrame == <<overflow_checks, windowVars, paramVars, realtime, should_run, histVars, cur>>

\* Tracer::new(ctx, &uniforms); shaderOk: shaders/voxel.wgsl can be read.
LibTracerNew ==
    /\ pc = "lib_new"
    /\ \E shaderOk \in BOOLEAN :
        IF shaderOk THEN
            /\ tracer' = TracerNew(uniforms)
            /\ pc' = "lib_idle"
            /\ fault' = fault
        ELSE
            /\ pc' = "exit_err"
            /\ fault' = "init"
            /\ tracer' = tracer
    /\ UNCHANGED <<libFrame, queue, frame, frame_time, saveVars, nTrace, lastTrace>>

\* Tracer::trace(ctx, uniforms, &grid, camera)
LibTrace ==
    /\ pc = "lib_idle"
    /\ Len(queue) < MaxTicks
    /\ \E ok \in BOOLEAN :
        /\ nTrace' = nTrace + 1
        /\ lastTrace' = TraceArgs(tracer, uniforms, grid, ok)
        /\ IF ok THEN
               /\ queue' = Append(queue, DispatchCmd(tracer, uniforms, grid, camera, nTrace + 1, 0))
               /\ frame' = nTrace + 1
               /\ frame_time' = frame_time
               /\ UNCHANGED <<pc, fault>>
           ELSE
               /\ pc' = "exit_err"
               /\ fault' = "trace"
               /\ UNCHANGED <<queue, frame, frame_time>>
    /\ UNCHANGED <<libFrame, tracer, saveVars>>

\* Tracer::frame_to_image(path, ctx), lines 273-316.
LibSave ==
    /\ pc = "lib_idle"
    /\ Len(queue) < MaxTicks
    /\ LET p == PaddedBytesPerRow(tracer.resolution[1], overflow_checks)
       IN  IF p.panic THEN
               /\ pc' = "panic"
               /\ fault' = "overflow"
               /\ UNCHANGED <<queue, padded, mapped>>
           ELSE
               /\ padded' = p.val
               /\ queue' = Append(queue, CopyCmd(tracer, p.val, nTrace, 0))
               /\ mapped' = "pending"
               /\ pc' = "lib_wait"
               /\ fault' = fault
    /\ UNCHANGED <<libFrame, tracer, frame, frame_time, png, nTrace, lastTrace>>

\* Tracer::frame_to_image, lines 318-336.
LibSaveComplete ==
    /\ pc = "lib_wait"
    /\ MapReady(mapped)
    /\ \E writeOk \in BOOLEAN :
        IF mapped = "ok" /\ writeOk THEN
            /\ png' = PngOf(tracer, padded)
            /\ pc' = "lib_idle"
            /\ fault' = fault
        ELSE
            /\ mapped = "ok" \/ writeOk
            /\ pc' = "exit_err"
            /\ fault' = "save"
            /\ png' = png
    /\ mapped' = "none"
    /\ UNCHANGED <<libFrame, tracer, queue, frame, frame_time, padded, nTrace, lastTrace>>

NextLib ==
    \/ LibTracerNew
    \/ LibTrace
    \/ LibSave
    \/ MapCallback
    \/ LibSaveComplete

SpecLib == InitLib /\ [][NextLib]_vars

\* ---------------------------------------------------------------- checks
\* The exploration of Spec and the start of SpecLong agree: the state in
\* which App::new hands over to App::run is Started at frame count 0.
StartedAfterNew == (pc = "run" /\ ticks = 0) => Started(U32(0))

Dispatches(q) == {i \in 1..Len(q) : q[i].kind = "dispatch"}
Copies(q) == {i \in 1..Len(q) : q[i].kind = "copy"}

\* C1: in a run of N consecutive completed ticks that each began with
\* realtime on, exactly N calls of Tracer::trace are made; in a run of
\* completed ticks with realtime off and the Render button not pressed, none
\* is made.
RealtimeDispatchCount ==
    /\ streak.kind = "realtime" => streak.calls = streak.ticks
    /\ streak.kind = "idle" => streak.calls = 0

RealtimeTwoTicks == streak.kind = "realtime" /\ streak.ticks = 2 /\ pc = "run"

\* C2: a failed dispatch of the loop (realtime or Render button) or a failed
\* save does not end the process: the loop is still running and should_run
\* is still true.
FaultsNonFatal ==
    fault \in {"trace", "save"} => (pc \notin {"exit_err", "panic"} /\ should_run)

\* C3: a Tracer is never built with a width or height that is not a multiple
\* of WORKGROUP_SIZE, and no dispatch is submitted for such a resolution.
ResolutionCheckedAtConstruction ==
    /\ tracer.built =>
        /\ WMod(tracer.resolution[1], WORKGROUP_SIZE) = 0
        /\ WMod(tracer.resolution[2], WORKGROUP_SIZE) = 0
    /\ \A i \in Dispatches(queue) :
        /\ WMod(queue[i].resolution[1], WORKGROUP_SIZE) = 0
        /\ WMod(queue[i].resolution[2], WORKGROUP_SIZE) = 0

\* C4: once the application is constructed, both components of the render
\* resolution are multiples of WORKGROUP_SIZE, and the workgroup counts of
\* every dispatch multiply back to the width and the height.
ResolutionDivisible ==
    /\ tracer.built =>
        /\ WMod(uniforms.resolution[1], WORKGROUP_SIZE) = 0
        /\ WMod(uniforms.resolution[2], WORKGROUP_SIZE) = 0
    /\ \A i \in Dispatches(queue) :
        /\ WMul(queue[i].groups[1], WORKGROUP_SIZE) = queue[i].resolution[1]
        /\ WMul(queue[i].groups[2], WORKGROUP_SIZE) = queue[i].resolution[2]

\* C5: at every call of Tracer::trace, the one of App::new included, the
\* voxel_amount of the uniforms passed is the length of the grid passed.
VoxelAmountMatchesGrid ==
    /\ nTrace > 0 => lastTrace.voxel_amount = U32(lastTrace.voxels)
    /\ \A i \in Dispatches(queue) : queue[i].voxel_amount = U32(queue[i].voxels)

DispatchAfterEdit ==
    /\ \E i \in Dispatches(queue) : queue[i].tick = 2
    /\ Cardinality(Dispatches(queue)) >= 2
    /\ lastTrace.voxels = 5

\* The largest width w for which 4 * w + 255 fits a u32: 2^30 - 64.
MaxPaddableWidth == <<2^14 - 1, Limb - 64>>

RowIsPadded(w, p) ==
    /\ WMod(p, COPY_BYTES_PER_ROW_ALIGNMENT) = 0
    /\ WLeq(WMul(w, 4), p)

FramesStrictlyMonotonic ==
    [][(pc = "update" /\ pc' = "run") => WLess(uniforms.frames, uniforms'.frames)]_vars

\* C7 as amended: every completed tick that begins with uniforms.frames
\* below 2^32 - 1 leaves it greater by exactly 1 and nothing else changes it;
\* the tick that begins with 2^32 - 1 either ends in an overflow panic or
\* wraps the counter to 0.
FramesCountTicksBelowMax ==
    [][/\ (pc = "update" /\ pc' = "run" /\ uniforms.frames # U32Max) =>
            /\ WLess(uniforms.frames, uniforms'.frames)
            /\ uniforms'.frames = WAdd(uniforms.frames, 1)
       /\ (pc = "update" /\ uniforms.frames = U32Max) =>
            \/ pc' = "panic" /\ fault' = "overflow" /\ uniforms'.frames = uniforms.frames
            \/ pc' = "run" /\ uniforms'.frames = U32(0)
       /\ pc # "update" => uniforms'.frames = uniforms.frames]_vars

FramesAtMax == pc = "run" /\ ticks = MaxTicks - 1 /\ uniforms.frames = U32Max

\* C8: Window.should_close, once set, is never cleared; the tick in which it
\* is set ends with should_run false; and from the moment it is set no tick
\* is started and no call of Tracer::trace is made: the loop ends.
CloseTerminates ==
    [][/\ should_close => should_close'
       /\ (should_close /\ pc = "update") => ~should_run'
       /\ should_close => (ticks' = ticks /\ nTrace' = nTrace /\ queue' = queue)
       /\ (should_close /\ pc = "run") => pc' = "exit_ok"]_vars

ClosedAndExited == pc = "exit_ok" /\ should_close /\ ~should_run /\ ticks = 2

\* C9: every readback copy is submitted after the most recent dispatch: the
\* last dispatch ahead of it in the queue is the one of the latest call of
\* Tracer::trace, and every dispatch of the same tick or an earlier one is
\* ahead of it.
SaveAfterLatestDispatch ==
    \A i \in Copies(queue) :
        /\ \E j \in Dispatches(queue) :
            /\ j < i
            /\ queue[j].id = queue[i].latest
            /\ \A k \in Dispatches(queue) : k < i => k <= j
        /\ \A j \in Dispatches(queue) : queue[j].tick <= queue[i].tick => j < i

SaveAfterRenderInSameTick ==
    \E i \in Copies(queue) :
        /\ i > 1
        /\ queue[i - 1].kind = "dispatch"
        /\ queue[i - 1].tick = queue[i].tick
        /\ queue[i].tick = 2
        /\ png.written

\* C10: an iteration of handle_events that handles a resize event of sizes
\* (w, h) leaves surface_config as it was and does not configure the surface
\* when w or h, cast to u32, is zero; otherwise it sets surface_config to the
\* cast sizes and configures the surface.
ResizeEffect ==
    [][(pc = "events" /\ evCount' = evCount + 1 /\ lastEvent'.type = "Resized") =>
        LET w == AsU32(lastEvent'.w)
            h == AsU32(lastEvent'.h)
        IN  IF w = U32(0) \/ h = U32(0)
            THEN surface_config' = surface_config /\ ~lastEvent'.configured
            ELSE surface_config' = <<w, h>> /\ lastEvent'.configured]_vars

ResizeToZeroKeepsConfig ==
    /\ lastEvent.type = "Resized"
    /\ lastEvent.w = 0
    /\ ~lastEvent.configured
    /\ surface_config = <<U32Max, U32(600)>>

\* C11: once the Tracer is built, its resolution, its texture and
\* uniforms.resolution never change and are the values of construction, the
\* defaults of App::new; an iteration of handle_events that handles a resize
\* event changes nothing but the surface configuration.
ResolutionFixed ==
    [][/\ tracer.built =>
            /\ tracer' = tracer
            /\ uniforms'.resolution = uniforms.resolution
       /\ tracer'.built =>
            /\ tracer'.texture = 1
            /\ tracer'.resolution = uniforms'.resolution
            /\ uniforms'.resolution = <<U32(DefaultResolution), U32(DefaultResolution)>>
       /\ (pc = "events" /\ evCount' = evCount + 1 /\ lastEvent'.type = "Resized") =>
            UNCHANGED <<pc, fault, should_close, tracer, queue, frame, frame_time, grid, uniforms,
                        camera, realtime, should_run, png, padded, nTrace>>]_vars

ResizedAfterSaveAndEdit ==
    /\ surface_config = <<U32(800), U32(600)>>
    /\ png.written
    /\ uniforms.max_steps # DefaultMaxSteps
    /\ Cardinality(Dispatches(queue)) >= 2
    /\ tracer.resolution = <<U32(DefaultResolution), U32(DefaultResolution)>>

\* C12 as the specification states it: within a tick no trace is called
\* while draw_ui is in progress, and nothing of the parameter block (grid,
\* uniforms, camera) is written outside draw_ui.
PhasesDisjoint ==
    [][pc # "new" =>
          /\ nTrace' # nTrace => pc \notin UiPhase
          /\ paramVars' # paramVars => pc \in UiPhase]_vars

\* C12, amended: within a tick a trace is called either before draw_ui
\* (realtime mode) or by the Render button inside it, in both cases before the
\* drag values of the tick have run and in a step that writes nothing of the
\* parameter block; the camera and the editable uniforms are written by the
\* drag values of draw_ui alone, uniforms.frames at the end of App::execute
\* alone, the grid and the voxel count never.
PhasesOrdered ==
    [][pc # "new" =>
          /\ nTrace' # nTrace =>
                /\ pc \in {"execute", "ui_render"}
                /\ ~cur.widgets
                /\ paramVars' = paramVars
          /\ (camera' # camera \/ uniforms'.max_steps # uniforms.max_steps) => pc = "ui_edit"
          /\ uniforms'.frames # uniforms.frames => pc = "update"
          /\ grid' = grid
          /\ uniforms'.voxel_amount = uniforms.voxel_amount]_vars

EditedAfterRenderButton ==
    /\ pc = "update"
    /\ cur.render
    /\ cur.widgets
    /\ uniforms.max_steps # DefaultMaxSteps
    /\ camera.zoom # DefaultCamera.zoom
    /\ uniforms.frames = U32(1)

\* C13: while frame_to_image waits (from the submission of the readback
\* until it returns) the tick presents nothing, calls no trace and handles no
\* event; the callback of map_async is awaited there and nowhere else, and
\* until it has fired the only step is its firing: the tick goes on, to the
\* next widget or to the panic of the unwrap, only after it.
SaveBlocks ==
    [][/\ mapped' # "none" => pc' \in {"save_wait", "lib_wait"}
       /\ pc = "save_wait" =>
            /\ UNCHANGED <<queue, nTrace, frame, frame_time, windowVars, paramVars, realtime,
                           should_run, ticks, tracer>>
            /\ IF mapped = "pending"
               THEN pc' = "save_wait" /\ mapped' \in {"ok", "err"} /\ png' = png
               ELSE pc' \in {After("ui_save"), "panic"}]_vars

SaveWaitsAfterRender ==
    /\ pc = "save_wait"
    /\ mapped = "pending"
    /\ cur.render
    /\ realtime
    /\ ticks = 2

\* C14: the image a successful frame_to_image writes has the width
\* padded_bytes_per_row / 4 and the height of the Tracer's resolution, and the
\* length of its data, padded_bytes_per_row * height, is 4 * width * height,
\* whatever the resolution.
ImageFillsBuffer ==
    png.written =>
        /\ png.width = WDiv(padded, 4)
        /\ png.height = tracer.resolution[2]
        /\ png.bytes = U64Mul(padded, tracer.resolution[2])
        /\ png.bytes = U64Mul(WMul(png.width, 4), png.height)

ImageOfPaddedWidth ==
    /\ png.written
    /\ tracer.resolution = <<U32(100), U32(100)>>
    /\ png.width = U32(128)
    /\ png.bytes = U32(51200)

\* C15: a trace call of realtime mode that fails leaves App.frame and
\* App.frame_time as the last successful trace set them; App.frame and
\* App.frame_time change only in a step whose trace call succeeded, to the
\* handle that call returned and to its duration.
FrameKeptOnFailure ==
    [][/\ (pc = "execute" /\ nTrace' # nTrace /\ ~lastTrace'.ok) =>
            /\ frame' = frame
            /\ frame_time' = frame_time
            /\ \A i \in Dispatches(queue') :
                  (\A j \in Dispatches(queue') : j <= i) => frame' = queue'[i].id
       /\ (frame' # frame \/ frame_time' # frame_time) =>
            /\ nTrace' = nTrace + 1
            /\ lastTrace'.ok
            /\ frame' = nTrace'
            /\ frame_time' = nTrace']_vars

RealtimeFailedAfterSuccess ==
    /\ pc = "exit_err"
    /\ fault = "trace"
    /\ cur.realtime
    /\ nTrace = 3
    /\ frame = 2
    /\ frame_time = 2

\* C16: a tick calls trace at most once, and never both for realtime mode
\* and for the Render button; App::execute calls trace at its start exactly
\* when realtime is on, the Render button calls it only with realtime off, and
\* realtime changes at the checkbox alone, after both: a tick that turns
\* realtime on makes no realtime call itself, and the next tick makes it.
OneDispatchPerTick ==
    [][/\ cur'.calls <= 1
       /\ ~(cur'.realtime /\ cur'.render)
       /\ (nTrace' # nTrace /\ pc # "new") =>
            \/ pc = "execute" /\ realtime
            \/ pc = "ui_render" /\ ~realtime /\ ~cur.realtime
       /\ pc = "execute" => (nTrace' = nTrace + 1 <=> realtime)
       /\ (realtime' # realtime) => (pc = "ui_realtime" /\ nTrace' = nTrace)
       /\ (pc = "run" /\ pc' = "execute") => cur'.realtime = realtime]_vars

RealtimeCallAfterToggle ==
    /\ pc = "ui_render"
    /\ cur.realtime
    /\ cur.calls = 1
    /\ streak.kind = "manual"
    /\ streak.calls = 1
    /\ nTrace = 3

====
